---- MODULE Spec2Model ----
(***************************************************************************)
(* A model of the two scripts of the repository:                           *)
(*   quspin/basis/basis_1d/_constructors/setup.py  (the build helper)      *)
(*   sphinx/doc_examples/spinful_fermion_basis_general-adv-example.py      *)
(* One behaviour is one run of one of the two scripts.  Python arrays are  *)
(* functions on 0..n-1, Python lists are sequences, file paths are         *)
(* sequences of path components, files are <<stem, extension>> pairs.      *)
(***************************************************************************)
EXTENDS Integers, Sequences, FiniteSets, TLC

VARIABLES
    prog,           \* which script this run executes
    name,           \* __name__ of setup.py: "__main__" or the imported module name
    argv,           \* sys.argv
    env,            \* what the interpreter finds: importable modules, *.pyx files
    pc,             \* position in the running script
    status,         \* "running", "exit_ok" (normal end) or "raised" (uncaught exception)
    exc,            \* the uncaught exception, "none" otherwise
    instr,          \* setup.py:77
    USE_CYTHON,     \* setup.py:15,17
    cython_src,     \* setup.py:22
    parent_package, \* setup.py:32
    top_path,       \* setup.py:32
    config,         \* setup.py:35
    setup_kwargs,   \* the keyword arguments setup() received, setup.py:81
    calls,          \* the functions entered so far, in order
    returned,       \* the last call of setup.py that returned, and its value
    raisedInside,   \* the exception raised inside cython_files/configuration/setup
    written,        \* files written by this run
    x, y, t_x, t_y, s, T_x, T_y, S,                          \* example:21-29
    basis_2d,                                                \* example:32
    hopping_left, hopping_right, potential, interaction,     \* example:36-39
    static, H, E                                             \* example:41-48

setupVars == <<name, argv, instr, USE_CYTHON, cython_src, parent_package, top_path,
               config, setup_kwargs, calls, returned, raisedInside, written>>
latticeVars == <<x, y, t_x, t_y, s, T_x, T_y, S>>
couplingVars == <<hopping_left, hopping_right, potential, interaction>>
exampleVars == <<latticeVars, basis_2d, couplingVars, static, H, E>>
vars == <<prog, env, pc, status, exc, setupVars, exampleVars>>

----------------------------------------------------------------------------
(* Bounds and input sets *)

\* the largest number of command-line arguments after the script name
MaxArgs == 2

Words == {"build_templates", "build_ext", "install"}

ArgLists == UNION {[1..n -> Words] : n \in 0..MaxArgs}

PyxStems == {"hcp_basis_ops", "boson_basis_ops"}

\* exceptions a call into Cython or numpy.distutils may end with
ExternalErrors == {"IndexError", "ValueError", "SystemExit"}

\* exceptions a call into the quspin library may end with
LibraryErrors == {"ValueError", "TypeError"}

Unbound == "<unbound>"

----------------------------------------------------------------------------
(* setup.py *)

PackageDir == <<"quspin", "basis", "basis_1d", "_constructors">>

join(dir, file) == Append(dir, file)

NumpyInclude == <<"numpy", "core", "include">>

ExtraCompileArgs == <<"-fno-strict-aliasing">>

except_ImportError_wrong_class(e) == e = "IndexError"

except_ImportError(e) == e \in {"ImportError", "ModuleNotFoundError"}

except_IndexError_wrong_class(e) == e \in {"ImportError", "ModuleNotFoundError"}

except_IndexError(e) == e = "IndexError"

is_build_templates_inverted(i) == i # "build_templates"

is_build_templates(i) == i = "build_templates"

hcp_src(package_dir) == join(package_dir, "hcp_basis_ops.cpp")

boson_src_hcb(package_dir) == join(package_dir, "hcb_basis_ops.cpp")

boson_src(package_dir) == join(package_dir, "boson_basis_ops.cpp")

Configuration(package_name, parent, top) ==
    [name |-> package_name, parent_package |-> parent, top_path |-> top,
     extensions |-> << >>]

NoConfig == Configuration(Unbound, Unbound, Unbound)

add_extension(cfg, ext_name, src, include, args, lang) ==
    [cfg EXCEPT !.extensions =
        Append(@, [name |-> ext_name, sources |-> src, include_dirs |-> include,
                   extra_compile_args |-> args, language |-> lang])]

\* the files cythonize(cython_src, language="c++") writes
cythonize(srcs) == {<<f[1], "cpp">> : f \in srcs}

\* glob.glob(os.path.join(package_dir, "*.pyx"))
glob_pyx == {<<f, "pyx">> : f \in env.pyx}

\* the files a build of the registered extensions writes
build_outputs(kwargs) ==
    {<<kwargs.extensions[k].name, "so">> : k \in 1..Len(kwargs.extensions)}

\* An exception e leaves a function called from line 79 or 81 (inside the try of
\* lines 76-82), or leaves configuration() called by an importing package.
Propagate(e) ==
    /\ pc' = "done"
    /\ IF name = "__main__" /\ except_IndexError(e)
       THEN status' = "exit_ok" /\ exc' = "none"
       ELSE status' = "raised" /\ exc' = e

\* line 73: the script body runs only when the file is the main module
MainGuard ==
    /\ prog = "setup.py" /\ status = "running" /\ pc = "l73"
    /\ pc' = IF name = "__main__" THEN "l74" ELSE "imported"
    /\ UNCHANGED <<prog, env, status, exc, setupVars, exampleVars>>

\* lines 74-75, before the try
ImportSetup ==
    /\ prog = "setup.py" /\ status = "running" /\ pc = "l74"
    /\ IF env.numpy
       THEN pc' = "l77" /\ UNCHANGED <<status, exc>>
       ELSE pc' = "done" /\ status' = "raised" /\ exc' = "ModuleNotFoundError"
    /\ UNCHANGED <<prog, env, setupVars, exampleVars>>

\* line 77 (and line 82 when sys.argv[1] does not exist)
ReadInstr ==
    /\ prog = "setup.py" /\ status = "running" /\ pc = "l77"
    /\ IF Len(argv) >= 2
       THEN /\ instr' = argv[2]
            /\ pc' = "l78"
            /\ UNCHANGED <<status, exc>>
       ELSE /\ pc' = "done"
            /\ IF except_IndexError("IndexError")
               THEN status' = "exit_ok" /\ exc' = "none"
               ELSE status' = "raised" /\ exc' = "IndexError"
            /\ UNCHANGED instr
    /\ UNCHANGED <<prog, env, name, argv, USE_CYTHON, cython_src, parent_package,
                   top_path, config, setup_kwargs, calls, returned, raisedInside,
                   written, exampleVars>>

\* lines 78-81: the dispatch on the first argument
Dispatch ==
    /\ prog = "setup.py" /\ status = "running" /\ pc = "l78"
    /\ IF is_build_templates(instr)
       THEN /\ calls' = Append(calls, "cython_files")
            /\ pc' = "cf13"
            /\ UNCHANGED <<parent_package, top_path>>
       ELSE /\ calls' = Append(calls, "configuration")
            /\ parent_package' = ""
            /\ top_path' = ""
            /\ pc' = "c33"
    /\ UNCHANGED <<prog, env, status, exc, name, argv, instr, USE_CYTHON, cython_src,
                   config, setup_kwargs, returned, raisedInside, written, exampleVars>>

\* lines 12-17
CythonImport ==
    /\ prog = "setup.py" /\ status = "running" /\ pc = "cf13"
    /\ IF env.cython
       THEN USE_CYTHON' = "True" /\ pc' = "cf19"
                                 /\ UNCHANGED <<status, exc, raisedInside>>
       ELSE IF except_ImportError("ModuleNotFoundError")
            THEN USE_CYTHON' = "False" /\ pc' = "cf19"
                                       /\ UNCHANGED <<status, exc, raisedInside>>
            ELSE /\ raisedInside' = "ModuleNotFoundError"
                 /\ Propagate("ModuleNotFoundError")
                 /\ UNCHANGED USE_CYTHON
    /\ UNCHANGED <<prog, env, name, argv, instr, cython_src, parent_package, top_path,
                   config, setup_kwargs, calls, returned, written, exampleVars>>

\* lines 19-22
CythonGlob ==
    /\ prog = "setup.py" /\ status = "running" /\ pc = "cf19"
    /\ cython_src' = glob_pyx
    /\ pc' = "cf23"
    /\ UNCHANGED <<prog, env, status, exc, name, argv, instr, USE_CYTHON,
                   parent_package, top_path, config, setup_kwargs, calls, returned,
                   raisedInside, written, exampleVars>>

\* lines 23-24 and the implicit return of None
Cythonize ==
    /\ prog = "setup.py" /\ status = "running" /\ pc = "cf23"
    /\ IF USE_CYTHON = "True"
       THEN /\ calls' = Append(calls, "cythonize")
            /\ \/ /\ written' = written \cup cythonize(cython_src)
                  /\ returned' = "cython_files:None"
                  /\ pc' = "done" /\ status' = "exit_ok"
                  /\ UNCHANGED <<exc, raisedInside>>
               \/ \E e \in ExternalErrors :
                     /\ raisedInside' = e
                     /\ Propagate(e)
                     /\ UNCHANGED <<written, returned>>
       ELSE /\ returned' = "cython_files:None"
            /\ pc' = "done" /\ status' = "exit_ok"
            /\ UNCHANGED <<calls, written, exc, raisedInside>>
    /\ UNCHANGED <<prog, env, name, argv, instr, USE_CYTHON, cython_src,
                   parent_package, top_path, config, setup_kwargs, exampleVars>>

\* an importing package calls configuration(parent_package, top_path)
CallConfiguration ==
    /\ prog = "setup.py" /\ status = "running" /\ pc = "imported"
    /\ \E pp \in {"", "quspin.basis.basis_1d"}, tp \in {"None", ""} :
          parent_package' = pp /\ top_path' = tp
    /\ calls' = Append(calls, "configuration")
    /\ pc' = "c33"
    /\ UNCHANGED <<prog, env, status, exc, name, argv, instr, USE_CYTHON, cython_src,
                   config, setup_kwargs, returned, raisedInside, written, exampleVars>>

\* lines 33-34
ConfigImports ==
    /\ prog = "setup.py" /\ status = "running" /\ pc = "c33"
    /\ IF env.numpy
       THEN pc' = "c35" /\ UNCHANGED <<status, exc, raisedInside>>
       ELSE raisedInside' = "ModuleNotFoundError" /\ Propagate("ModuleNotFoundError")
    /\ UNCHANGED <<prog, env, name, argv, instr, USE_CYTHON, cython_src,
                   parent_package, top_path, config, setup_kwargs, calls, returned,
                   written, exampleVars>>

\* lines 35-37
ConfigCreate ==
    /\ prog = "setup.py" /\ status = "running" /\ pc = "c35"
    /\ \/ /\ config' = Configuration("_constructors", parent_package, top_path)
          /\ pc' = "c60"
          /\ UNCHANGED <<status, exc, raisedInside>>
       \/ \E e \in ExternalErrors :
             raisedInside' = e /\ Propagate(e) /\ UNCHANGED config
    /\ UNCHANGED <<prog, env, name, argv, instr, USE_CYTHON, cython_src,
                   parent_package, top_path, setup_kwargs, calls, returned, written,
                   exampleVars>>

\* lines 60-63
AddHcp ==
    /\ prog = "setup.py" /\ status = "running" /\ pc = "c60"
    /\ \/ /\ config' = add_extension(config, "hcp_basis_ops", hcp_src(PackageDir),
                                     <<NumpyInclude>>, ExtraCompileArgs, "c++")
          /\ pc' = "c65"
          /\ UNCHANGED <<status, exc, raisedInside>>
       \/ \E e \in ExternalErrors :
             raisedInside' = e /\ Propagate(e) /\ UNCHANGED config
    /\ UNCHANGED <<prog, env, name, argv, instr, USE_CYTHON, cython_src,
                   parent_package, top_path, setup_kwargs, calls, returned, written,
                   exampleVars>>

\* lines 65-68
AddBoson ==
    /\ prog = "setup.py" /\ status = "running" /\ pc = "c65"
    /\ \/ /\ config' = add_extension(config, "boson_basis_ops", boson_src(PackageDir),
                                     <<NumpyInclude>>, ExtraCompileArgs, "c++")
          /\ pc' = "c71"
          /\ UNCHANGED <<status, exc, raisedInside>>
       \/ \E e \in ExternalErrors :
             raisedInside' = e /\ Propagate(e) /\ UNCHANGED config
    /\ UNCHANGED <<prog, env, name, argv, instr, USE_CYTHON, cython_src,
                   parent_package, top_path, setup_kwargs, calls, returned, written,
                   exampleVars>>

\* line 71: to line 81 of the script, or to the importing package
ConfigReturn ==
    /\ prog = "setup.py" /\ status = "running" /\ pc = "c71"
    /\ returned' = "configuration:config"
    /\ IF name = "__main__"
       THEN pc' = "l81" /\ UNCHANGED status
       ELSE pc' = "done" /\ status' = "exit_ok"
    /\ UNCHANGED <<prog, env, exc, name, argv, instr, USE_CYTHON, cython_src,
                   parent_package, top_path, config, setup_kwargs, calls,
                   raisedInside, written, exampleVars>>

\* line 81, first call: config.todict()
Todict ==
    /\ prog = "setup.py" /\ status = "running" /\ pc = "l81"
    /\ \/ /\ returned' = "todict:dict"
          /\ pc' = "l81_setup"
          /\ UNCHANGED <<status, exc, raisedInside>>
       \/ \E e \in ExternalErrors :
             raisedInside' = e /\ Propagate(e) /\ UNCHANGED returned
    /\ UNCHANGED <<prog, env, name, argv, instr, USE_CYTHON, cython_src,
                   parent_package, top_path, config, setup_kwargs, calls, written,
                   exampleVars>>

\* line 81, second call: setup(**dict)
Setup ==
    /\ prog = "setup.py" /\ status = "running" /\ pc = "l81_setup"
    /\ calls' = Append(calls, "setup")
    /\ setup_kwargs' = config
    /\ \/ /\ written' = written \cup build_outputs(config)
          /\ pc' = "done" /\ status' = "exit_ok"
          /\ UNCHANGED <<exc, raisedInside>>
       \/ \E e \in ExternalErrors :
             raisedInside' = e /\ Propagate(e) /\ UNCHANGED written
    /\ UNCHANGED <<prog, env, name, argv, instr, USE_CYTHON, cython_src,
                   parent_package, top_path, config, returned, exampleVars>>

SetupNext ==
    \/ MainGuard \/ ImportSetup \/ ReadInstr \/ Dispatch
    \/ CythonImport \/ CythonGlob \/ Cythonize
    \/ CallConfiguration \/ ConfigImports \/ ConfigCreate \/ AddHcp \/ AddBoson
    \/ ConfigReturn \/ Todict \/ Setup

----------------------------------------------------------------------------
(* spinful_fermion_basis_general-adv-example.py *)

Lx == 4

Ly == 4

N_2d == Lx * Ly

J == 1

U == 2

\* mu = 0.5, as <<numerator, denominator>>
mu == <<1, 2>>

neg(q) == <<0 - q[1], q[2]>>

size(a) == Cardinality(DOMAIN a)

\* np.arange(n)
arange(n) == [i \in 0..(n - 1) |-> i]

\* np.hstack((a, b)) of two one-dimensional arrays
hstack(a, b) ==
    [i \in 0..(size(a) + size(b) - 1) |-> IF i < size(a) THEN a[i] ELSE b[i - size(a)]]

\* np.roll(a, shift): the element at i moves to (i + shift) mod size
roll(a, shift) == [i \in DOMAIN a |-> a[(i - shift) % size(a)]]

\* a + c, elementwise
plus(a, c) == [i \in DOMAIN a |-> a[i] + c]

x_positions(n) == [i \in 0..(n - 1) |-> arange(n)[i] % Lx]

y_positions(n) == [i \in 0..(n - 1) |-> arange(n)[i] \div Lx]

translate_x_nowrap(xs, ys) == [i \in DOMAIN xs |-> (xs[i] + 1) + Lx * ys[i]]

translate_x(xs, ys) == [i \in DOMAIN xs |-> ((xs[i] + 1) % Lx) + Lx * ys[i]]

translate_y(xs, ys) == [i \in DOMAIN xs |-> xs[i] + Lx * ((ys[i] + 1) % Ly)]

both_species_noshift(t) == hstack(t, t)

both_species(t) == hstack(t, plus(t, N_2d))

spin_inversion_Lx(sites) == roll(sites, Lx)

spin_inversion(sites) == roll(sites, N_2d)

\* [[c, i, T[i]] for i in range(n)]
bonds(c, T, n) == [k \in 1..n |-> <<c, k - 1, T[k - 1]>>]

hopping_left_list(Tx, Ty) == bonds(0 - J, Tx, 2 * N_2d) \o bonds(0 - J, Ty, 2 * N_2d)

hopping_right_list_yx(Tx, Ty) == bonds(J, Ty, 2 * N_2d) \o bonds(J, Tx, 2 * N_2d)

hopping_right_list(Tx, Ty) == bonds(J, Tx, 2 * N_2d) \o bonds(J, Ty, 2 * N_2d)

potential_list == [k \in 1..(2 * N_2d) |-> <<neg(mu), k - 1>>]

interaction_list_all == [k \in 1..(2 * N_2d) |-> <<U, k - 1, (k - 1) + N_2d>>]

interaction_list == [k \in 1..N_2d |-> <<U, k - 1, (k - 1) + N_2d>>]

spinful_fermion_basis_general(N, simple, nf, kx, ky, sb) ==
    [N |-> N, simple_symm |-> simple, Nf |-> nf, kxblock |-> kx, kyblock |-> ky,
     sblock |-> sb]

NoBasis == spinful_fermion_basis_general(0, TRUE, << >>, << >>, << >>, << >>)

hamiltonian(static_list, dynamic_list, basis, dtype) ==
    [static |-> static_list, dynamic |-> dynamic_list, basis |-> basis, dtype |-> dtype]

NoHamiltonian == hamiltonian(<< >>, << >>, NoBasis, Unbound)

\* an uncaught exception ends the script at the line that raised it
ExampleFails(e) == pc' = pc /\ status' = "raised" /\ exc' = e

\* lines 3-9
ExImports ==
    /\ prog = "example" /\ status = "running" /\ pc = "e3"
    /\ IF env.quspin /\ env.numpy
       THEN pc' = "e21" /\ UNCHANGED <<status, exc>>
       ELSE ExampleFails("ModuleNotFoundError")
    /\ UNCHANGED <<prog, env, setupVars, exampleVars>>

\* lines 12-21
ExX ==
    /\ prog = "example" /\ status = "running" /\ pc = "e21"
    /\ x' = x_positions(N_2d)
    /\ pc' = "e22"
    /\ UNCHANGED <<prog, env, status, exc, setupVars, y, t_x, t_y, s, T_x, T_y, S,
                   basis_2d, couplingVars, static, H, E>>

\* line 22
ExY ==
    /\ prog = "example" /\ status = "running" /\ pc = "e22"
    /\ y' = y_positions(N_2d)
    /\ pc' = "e23"
    /\ UNCHANGED <<prog, env, status, exc, setupVars, x, t_x, t_y, s, T_x, T_y, S,
                   basis_2d, couplingVars, static, H, E>>

\* line 23
ExTx1 ==
    /\ prog = "example" /\ status = "running" /\ pc = "e23"
    /\ t_x' = translate_x(x, y)
    /\ pc' = "e24"
    /\ UNCHANGED <<prog, env, status, exc, setupVars, x, y, t_y, s, T_x, T_y, S,
                   basis_2d, couplingVars, static, H, E>>

\* line 24
ExTy1 ==
    /\ prog = "example" /\ status = "running" /\ pc = "e24"
    /\ t_y' = translate_y(x, y)
    /\ pc' = "e26"
    /\ UNCHANGED <<prog, env, status, exc, setupVars, x, y, t_x, s, T_x, T_y, S,
                   basis_2d, couplingVars, static, H, E>>

\* line 26
ExSites ==
    /\ prog = "example" /\ status = "running" /\ pc = "e26"
    /\ s' = arange(2 * N_2d)
    /\ pc' = "e27"
    /\ UNCHANGED <<prog, env, status, exc, setupVars, x, y, t_x, t_y, T_x, T_y, S,
                   basis_2d, couplingVars, static, H, E>>

\* line 27
ExTx ==
    /\ prog = "example" /\ status = "running" /\ pc = "e27"
    /\ T_x' = both_species(t_x)
    /\ pc' = "e28"
    /\ UNCHANGED <<prog, env, status, exc, setupVars, x, y, t_x, t_y, s, T_y, S,
                   basis_2d, couplingVars, static, H, E>>

\* line 28
ExTy ==
    /\ prog = "example" /\ status = "running" /\ pc = "e28"
    /\ T_y' = both_species(t_y)
    /\ pc' = "e29"
    /\ UNCHANGED <<prog, env, status, exc, setupVars, x, y, t_x, t_y, s, T_x, S,
                   basis_2d, couplingVars, static, H, E>>

\* line 29
ExS ==
    /\ prog = "example" /\ status = "running" /\ pc = "e29"
    /\ S' = spin_inversion(s)
    /\ pc' = "e32"
    /\ UNCHANGED <<prog, env, status, exc, setupVars, x, y, t_x, t_y, s, T_x, T_y,
                   basis_2d, couplingVars, static, H, E>>

\* line 32
ExBasis ==
    /\ prog = "example" /\ status = "running" /\ pc = "e32"
    /\ \/ /\ basis_2d' = spinful_fermion_basis_general(N_2d, FALSE, <<2, 2>>,
                                     <<T_x, 0>>, <<T_y, 0>>, <<S, 0>>)
          /\ pc' = "e36"
          /\ UNCHANGED <<status, exc>>
       \/ \E e \in LibraryErrors : ExampleFails(e) /\ UNCHANGED basis_2d
    /\ UNCHANGED <<prog, env, setupVars, latticeVars, couplingVars, static, H, E>>

\* line 36
ExHoppingLeft ==
    /\ prog = "example" /\ status = "running" /\ pc = "e36"
    /\ hopping_left' = hopping_left_list(T_x, T_y)
    /\ pc' = "e37"
    /\ UNCHANGED <<prog, env, status, exc, setupVars, latticeVars, basis_2d,
                   hopping_right, potential, interaction, static, H, E>>

\* line 37
ExHoppingRight ==
    /\ prog = "example" /\ status = "running" /\ pc = "e37"
    /\ hopping_right' = hopping_right_list(T_x, T_y)
    /\ pc' = "e38"
    /\ UNCHANGED <<prog, env, status, exc, setupVars, latticeVars, basis_2d,
                   hopping_left, potential, interaction, static, H, E>>

\* line 38
ExPotential ==
    /\ prog = "example" /\ status = "running" /\ pc = "e38"
    /\ potential' = potential_list
    /\ pc' = "e39"
    /\ UNCHANGED <<prog, env, status, exc, setupVars, latticeVars, basis_2d,
                   hopping_left, hopping_right, interaction, static, H, E>>

\* line 39
ExInteraction ==
    /\ prog = "example" /\ status = "running" /\ pc = "e39"
    /\ interaction' = interaction_list
    /\ pc' = "e41"
    /\ UNCHANGED <<prog, env, status, exc, setupVars, latticeVars, basis_2d,
                   hopping_left, hopping_right, potential, static, H, E>>

\* lines 41-44
ExStatic ==
    /\ prog = "example" /\ status = "running" /\ pc = "e41"
    /\ static' = << <<"+-", hopping_left>>, <<"-+", hopping_right>>,
                    <<"n", potential>>, <<"nn", interaction>> >>
    /\ pc' = "e46"
    /\ UNCHANGED <<prog, env, status, exc, setupVars, latticeVars, basis_2d,
                   couplingVars, H, E>>

\* line 46
ExHamiltonian ==
    /\ prog = "example" /\ status = "running" /\ pc = "e46"
    /\ \/ /\ H' = hamiltonian(static, << >>, basis_2d, "float64")
          /\ pc' = "e48"
          /\ UNCHANGED <<status, exc>>
       \/ \E e \in LibraryErrors : ExampleFails(e) /\ UNCHANGED H
    /\ UNCHANGED <<prog, env, setupVars, latticeVars, basis_2d, couplingVars,
                   static, E>>

\* line 48
ExEigvalsh ==
    /\ prog = "example" /\ status = "running" /\ pc = "e48"
    /\ \/ /\ E' = "eigvalsh"
          /\ pc' = "done" /\ status' = "exit_ok"
          /\ UNCHANGED exc
       \/ \E e \in LibraryErrors : ExampleFails(e) /\ UNCHANGED E
    /\ UNCHANGED <<prog, env, setupVars, latticeVars, basis_2d, couplingVars,
                   static, H>>

ExampleNext ==
    \/ ExImports \/ ExX \/ ExY \/ ExTx1 \/ ExTy1 \/ ExSites \/ ExTx \/ ExTy \/ ExS
    \/ ExBasis \/ ExHoppingLeft \/ ExHoppingRight \/ ExPotential \/ ExInteraction
    \/ ExStatic \/ ExHamiltonian \/ ExEigvalsh

----------------------------------------------------------------------------
(* One run of one script *)

Environments ==
    [numpy : BOOLEAN, cython : BOOLEAN, quspin : BOOLEAN, pyx : SUBSET PyxStems]

Init ==
    /\ prog \in {"setup.py", "example"}
    /\ env \in Environments
    /\ IF prog = "setup.py"
       THEN /\ name \in {"__main__", "quspin.basis.basis_1d._constructors.setup"}
            /\ argv \in {<<"setup.py">> \o a : a \in ArgLists}
            /\ pc = "l73"
       ELSE /\ name = "__main__"
            /\ argv = <<"spinful_fermion_basis_general-adv-example.py">>
            /\ pc = "e3"
    /\ status = "running"
    /\ exc = "none"
    /\ instr = Unbound
    /\ USE_CYTHON = Unbound
    /\ cython_src = {}
    /\ parent_package = Unbound
    /\ top_path = Unbound
    /\ config = NoConfig
    /\ setup_kwargs = NoConfig
    /\ calls = << >>
    /\ returned = "nothing"
    /\ raisedInside = "none"
    /\ written = {}
    /\ x = << >> /\ y = << >> /\ t_x = << >> /\ t_y = << >>
    /\ s = << >> /\ T_x = << >> /\ T_y = << >> /\ S = << >>
    /\ basis_2d = NoBasis
    /\ hopping_left = << >> /\ hopping_right = << >>
    /\ potential = << >> /\ interaction = << >>
    /\ static = << >>
    /\ H = NoHamiltonian
    /\ E = Unbound

Next == SetupNext \/ ExampleNext

Spec == Init /\ [][Next]_vars

----------------------------------------------------------------------------
(* Properties of setup.py *)

Called(f) == \E k \in 1..Len(calls) : calls[k] = f

RunsAsScript == prog = "setup.py" /\ name = "__main__"

NothingInvoked ==
    ~Called("cython_files") /\ ~Called("configuration") /\ ~Called("setup")

\* C1, as stated: run as a script with no command-line argument, the build helper
\* never raises and invokes neither cython_files() nor configuration()/setup().
C1_NoArgumentNeverRaises ==
    (RunsAsScript /\ Len(argv) = 1) =>
        /\ status # "raised"
        /\ NothingInvoked

\* C1, amended: run as a script with no command-line argument in an environment
\* where numpy.distutils.core can be imported (line 74, outside the try), the
\* build helper never raises, never gets past line 77, ends normally, and invokes
\* neither cython_files() nor configuration()/setup().
C1_NoArgumentExitsSilently ==
    (RunsAsScript /\ Len(argv) = 1 /\ env.numpy) =>
        /\ status # "raised"
        /\ exc = "none"
        /\ pc \in {"l73", "l74", "l77", "done"}
        /\ pc = "done" => status = "exit_ok"
        /\ NothingInvoked

C1_Witness ==
    /\ RunsAsScript /\ Len(argv) = 1 /\ env.numpy
    /\ pc = "done" /\ status = "exit_ok"

\* C2: once cython_files() runs (first argument "build_templates") where Cython
\* cannot be imported, nothing is raised, cythonize is never called, no file is
\* written, and cython_files() returns None, which ends the run normally.
C2_NoCythonSkipsTranspilation ==
    (RunsAsScript /\ Called("cython_files") /\ ~env.cython) =>
        /\ argv[2] = "build_templates"
        /\ status # "raised"
        /\ raisedInside = "none"
        /\ USE_CYTHON \in {Unbound, "False"}
        /\ ~Called("cythonize")
        /\ written = {}
        /\ pc = "done" => (returned = "cython_files:None" /\ status = "exit_ok")

C2_Witness ==
    /\ RunsAsScript /\ ~env.cython /\ env.pyx = PyxStems
    /\ pc = "done" /\ returned = "cython_files:None" /\ USE_CYTHON = "False"

ExtensionNames(cfg) == {cfg.extensions[k].name : k \in 1..Len(cfg.extensions)}

\* C3: the configuration that configuration() returns registers exactly two
\* extension targets, hcp_basis_ops and boson_basis_ops, each with the single
\* source <package_dir>/<name>.cpp and extra compile arguments
\* ["-fno-strict-aliasing"]; none of the four commented-out targets is registered.
C3_TwoExtensionTargets ==
    (prog = "setup.py" /\ returned \in {"configuration:config", "todict:dict"}) =>
        /\ Len(config.extensions) = 2
        /\ ExtensionNames(config) = {"hcp_basis_ops", "boson_basis_ops"}
        /\ ExtensionNames(config) \cap {"spin_basis_ops", "hcb_basis_ops",
                                        "fermion_basis_ops", "inplace_ops"} = {}
        /\ \A k \in 1..Len(config.extensions) :
              /\ config.extensions[k].extra_compile_args = <<"-fno-strict-aliasing">>
              /\ config.extensions[k].name = "hcp_basis_ops" =>
                    config.extensions[k].sources = PackageDir \o <<"hcp_basis_ops.cpp">>
              /\ config.extensions[k].name = "boson_basis_ops" =>
                    config.extensions[k].sources = PackageDir \o <<"boson_basis_ops.cpp">>
        /\ Called("setup") => setup_kwargs = config

C3_Witness ==
    /\ prog = "setup.py" /\ returned = "configuration:config"
    /\ config.extensions[2].name = "boson_basis_ops"

\* C6, as stated: a finished script run with first argument "build_templates" has
\* called cython_files() and neither configuration() nor setup(); with any other
\* first argument it has called setup() with the configuration and not
\* cython_files().
C6_ModeAlwaysRuns ==
    (RunsAsScript /\ Len(argv) >= 2 /\ pc = "done") =>
        IF argv[2] = "build_templates"
        THEN Called("cython_files") /\ ~Called("configuration") /\ ~Called("setup")
        ELSE Called("setup") /\ setup_kwargs = config /\ ~Called("cython_files")

\* C6, amended: the two modes exclude each other and the first argument alone
\* selects between them.  cython_files() is entered only for "build_templates"
\* and then configuration()/setup() never are; configuration()/setup() are
\* entered only for another first argument and then cython_files() never is.
\* When numpy.distutils.core can be imported, a finished run has entered
\* cython_files() ("build_templates") or configuration() (otherwise), and has
\* called setup() with the returned configuration whenever configuration() and
\* todict() returned.
C6_ModesExclusive ==
    (RunsAsScript /\ Len(argv) >= 2) =>
        /\ Called("cython_files") =>
              argv[2] = "build_templates" /\ ~Called("configuration") /\ ~Called("setup")
        /\ (Called("configuration") \/ Called("setup")) =>
              argv[2] # "build_templates" /\ ~Called("cython_files")
        /\ Called("setup") =>
              /\ Called("configuration")
              /\ returned = "todict:dict"
              /\ setup_kwargs = config
        /\ (env.numpy /\ pc = "done") =>
              IF argv[2] = "build_templates"
              THEN Called("cython_files")
              ELSE /\ Called("configuration")
                   /\ returned = "todict:dict" => Called("setup")

C6_Witness ==
    /\ RunsAsScript /\ Len(argv) = 3
    /\ argv[2] = "build_ext" /\ argv[3] = "build_templates"
    /\ pc = "done" /\ Called("setup") /\ status = "exit_ok"

\* C7: whenever a command-line argument was supplied, an exception raised inside
\* cython_files() or inside configuration()/setup() reaches the caller: the run
\* does not end as a silent success.
C7_ErrorsInsidePropagate ==
    (RunsAsScript /\ Len(argv) >= 2 /\ raisedInside # "none" /\ pc = "done") =>
        status = "raised" /\ exc = raisedInside

----------------------------------------------------------------------------
(* Properties of the example script *)

ExampleLines ==
    <<"e3", "e21", "e22", "e23", "e24", "e26", "e27", "e28", "e29", "e32", "e36", "e37",
      "e38", "e39", "e41", "e46", "e48", "done">>

LineIndex(l) == CHOOSE k \in 1..Len(ExampleLines) : ExampleLines[k] = l

\* the statement at position l of the example has been executed
Executed(l) == prog = "example" /\ LineIndex(pc) > LineIndex(l)

IsPermutationOf(a, n) ==
    /\ DOMAIN a = 0..(n - 1)
    /\ \A i \in 0..(n - 1) : a[i] \in 0..(n - 1)
    /\ \A v \in 0..(n - 1) : Cardinality({i \in 0..(n - 1) : a[i] = v}) = 1

\* C4: with Lx = Ly = 4, T_x and T_y are each a permutation of {0,...,31}: length
\* 32, every value in [0,32), every index occurring exactly once.
C4_TranslationsArePermutations ==
    /\ Executed("e27") => IsPermutationOf(T_x, 32)
    /\ Executed("e28") => IsPermutationOf(T_y, 32)

C4_Witness ==
    /\ Executed("e28")
    /\ T_x[3] = 0 /\ T_x[19] = 16
    /\ T_y[12] = 0 /\ T_y[31] = 19

\* C5: the interaction list has exactly 16 entries, the entry for site i in 0..15
\* being [U, i, i+16].
C5_InteractionPairsSpecies ==
    Executed("e39") =>
        /\ Len(interaction) = 16
        /\ \A i \in 0..15 : interaction[i + 1] = <<U, i, i + 16>>
        /\ {<<interaction[k][2], interaction[k][3]>> : k \in 1..Len(interaction)}
              = {<<i, i + 16>> : i \in 0..15}

C5_Witness ==
    Executed("e39") /\ interaction[1] = <<2, 0, 16>> /\ interaction[16] = <<2, 15, 31>>

\* C8: S = roll(s, N_2d) is a permutation of {0,...,31} with S[i] = i+16 for i in
\* 0..15 and S[i] = i-16 for i in 16..31, so S is an involution without fixed point.
C8_SpinInversionInvolution ==
    Executed("e29") =>
        /\ IsPermutationOf(S, 32)
        /\ \A i \in 0..15 : S[i] = i + 16
        /\ \A i \in 16..31 : S[i] = i - 16
        /\ \A i \in 0..31 : S[S[i]] = i /\ S[i] # i

C8_Witness == Executed("e29") /\ S[0] = 16 /\ S[31] = 15 /\ s[31] = 31

\* C9: the symmetry generators handed to the basis are consistent translations of
\* a periodic 4x4 lattice: T_x and T_y commute, four applications of either give
\* the identity, and both commute with the spin inversion S.
C9_GeneratorsConsistent ==
    /\ Executed("e29") =>
          \A i \in 0..31 :
              /\ T_x[T_y[i]] = T_y[T_x[i]]
              /\ T_x[T_x[T_x[T_x[i]]]] = i
              /\ T_y[T_y[T_y[T_y[i]]]] = i
              /\ T_x[S[i]] = S[T_x[i]]
              /\ T_y[S[i]] = S[T_y[i]]
    /\ Executed("e32") =>
          /\ basis_2d.kxblock = <<T_x, 0>>
          /\ basis_2d.kyblock = <<T_y, 0>>
          /\ basis_2d.sblock = <<S, 0>>

C9_Witness ==
    /\ Executed("e32")
    /\ T_x[T_y[15]] = 0 /\ T_y[T_x[15]] = 0
    /\ basis_2d.kxblock[1][15] = 12 /\ basis_2d.sblock[1][15] = 31

\* C10: hopping_left and hopping_right have 64 entries each, 32 along x followed
\* by 32 along y; the k-th entries name the same ordered site pair with
\* coefficients -J and +J; every entry couples two distinct sites of one species.
C10_HoppingWithinSpecies ==
    Executed("e37") =>
        /\ Len(hopping_left) = 64 /\ Len(hopping_right) = 64
        /\ \A k \in 1..64 :
              /\ hopping_left[k][1] = 0 - J /\ hopping_right[k][1] = J
              /\ hopping_left[k][2] = hopping_right[k][2]
              /\ hopping_left[k][3] = hopping_right[k][3]
              /\ hopping_left[k][2] # hopping_left[k][3]
              /\ hopping_left[k][2] < 16 <=> hopping_left[k][3] < 16
              /\ hopping_right[k][2] # hopping_right[k][3]
              /\ hopping_right[k][2] < 16 <=> hopping_right[k][3] < 16
        /\ \A k \in 1..32 :
              /\ hopping_left[k] = <<0 - J, k - 1, T_x[k - 1]>>
              /\ hopping_left[k + 32] = <<0 - J, k - 1, T_y[k - 1]>>

C10_Witness ==
    /\ Executed("e37")
    /\ hopping_left[33] = <<-1, 0, 4>>
    /\ hopping_right[64] = <<1, 31, 19>>

====
